---- MODULE Spec2Model ----
(***************************************************************************)
(* Model of the space2super engine (space2super.cpp): the state machine    *)
(* that decides, from the stream of recorded X events, whether a press and *)
(* release of the Space key is a tap (a synthetic Space is injected) or a  *)
(* use of Space as the Super modifier.                                     *)
(***************************************************************************)
EXTENDS Integers, Sequences, FiniteSets, TLC

\* ---------------------------------------------------------------- bounds
\* Number of clock ticks after StartClock that gettimeofday can return.
MaxTicks == 5
\* Length of one clock tick in microseconds.
TickUsec == 500
\* Longest Space hold (in events, press and release included) that is
\* recorded event by event in `cycle`.
MaxHold == 4

\* ------------------------------------------------- command line arguments
\* A string is a sequence of characters.  atoi reads an optional sign and
\* the decimal digits that follow, up to the first other character.
DigitValue(c) ==
    CASE c = "0" -> 0 [] c = "1" -> 1 [] c = "2" -> 2 [] c = "3" -> 3
      [] c = "4" -> 4 [] c = "5" -> 5 [] c = "6" -> 6 [] c = "7" -> 7
      [] c = "8" -> 8 [] c = "9" -> 9 [] OTHER -> -1

RECURSIVE atoi_digits(_, _, _)
atoi_digits(str, i, value) ==
    IF i > Len(str) \/ DigitValue(str[i]) < 0 THEN value
    ELSE atoi_digits(str, i + 1, value * 10 + DigitValue(str[i]))

atoi(str) ==
    IF str # <<>> /\ str[1] = "-" THEN - atoi_digits(str, 2, 0)
    ELSE IF str # <<>> /\ str[1] = "+" THEN atoi_digits(str, 2, 0)
    ELSE atoi_digits(str, 1, 0)

\* static_cast<KeyCode>: KeyCode is an unsigned byte.
KeyCodeOf(n) == n % 256

\* argv[1] as `s2sctl` passes it.
Argv1 == <<"6", "5">>

\* argv[1]: the key code that was originally mapped to Space.
original_space_key_code_ == KeyCodeOf(atoi(Argv1))
\* argv[2]: the maximum number of milliseconds Space can be held to be typed.
timeout_millisec_ == 1

\* --------------------------------------------------------------- state
VARIABLES
    space_down_,              \* whether Space is pressed
    space_down_moment_,       \* when its KeyPress happened
    modifier_down_,           \* whether any of Control/Shift/Alt is pressed
    space_key_combo_,         \* whether Space is pressed with some other key
    record_context_,          \* "none", "enabled" or "freed"
    instance,                 \* the global std::unique_ptr<Space2Super>
    phase,                    \* "starting", "blocked" in XRecordEnableContext, or "exited"
    exit_status,
    environment,              \* <<what main found when it started>>, empty before
    signal_received,          \* the signal stop(int) was called with, or "none"
    fake_status,              \* what the XTestFakeKeyEvent calls of `fake` returned
    fake,                     \* XTestFakeKeyEvent calls made for the last event
    space_held_milliseconds,  \* the local of handle_key_release
    last,                     \* the last event delivered to event_callback
    event_time,               \* the wall clock when the last Space event was handled
    pre,                      \* the engine flags before the last event
    pre_moment,               \* since when Space was held before the last event
    mods_down,                \* modifier keys that are physically down
    cycle,                    \* the events of the current or just finished Space hold
    keymap,                   \* the X keyboard mapping s2sctl reads and changes
    files,                    \* the config file and the two xmodmap files of s2sctl
    engines,                  \* the space2super processes of the user
    ctl                       \* the last s2sctl command: its steps and exit status,
                              \* and whether an xmodmap call has failed so far

\* ------------------------------------------------------------ wall clock
\* The first value gettimeofday can return; half a millisecond before a
\* second boundary, so that tv_usec differences of both signs occur.
StartClock == [tv_sec |-> 0, tv_usec |-> 999500]

TimeAt(k) ==
    LET us == StartClock.tv_usec + k * TickUsec
    IN  [tv_sec |-> StartClock.tv_sec + (us \div 1000000), tv_usec |-> us % 1000000]

\* The values gettimeofday returns (the wall clock may also be set back).
Times == {TimeAt(k) : k \in 0..MaxTicks}

\* Marks that no clock value belongs to an event or that a local is unset.
NoTime == [tv_sec |-> -1, tv_usec |-> -1]
\* The local space_held_milliseconds is a sequence: empty while not assigned.
NotComputed == <<>>

Micros(t) == t.tv_sec * 1000000 + t.tv_usec

\* C++ integer division (rounds toward zero), for b > 0.
TruncDiv(a, b) == IF a >= 0 THEN a \div b ELSE -((-a) \div b)

timespan_milliseconds_no_seconds(start, end) ==
    TruncDiv(end.tv_usec - start.tv_usec, 1000)

timespan_milliseconds(start, end) ==
    (end.tv_sec - start.tv_sec) * 1000 +
    TruncDiv(end.tv_usec - start.tv_usec, 1000)

\* ------------------------------------------------------- keyboard layout
KeyCodes == 0..255

\* The no-modifier KeySym of each key code after `s2sctl start` has applied
\* its xmodmap changes: every `space` became `Super_L` and a spare key code
\* was mapped to `space`.
Layout ==
    [k \in KeyCodes |->
        CASE k = 38  -> "a"
          [] k = 50  -> "Shift_L"
          [] k = 62  -> "Shift_R"
          [] k = 65  -> "Super_L"
          [] k = 66  -> "Caps_Lock"
          [] k = 133 -> "Super_L"
          [] k = 250 -> "space"
          [] OTHER   -> "NoSymbol"]

\* The layout of a session in which no key code is mapped to `space`
\* (`s2sctl` has not run, or its mapping was removed).
LayoutWithoutSpace ==
    [k \in KeyCodes |-> IF Layout[k] = "space" THEN "NoSymbol" ELSE Layout[k]]

\* The layout of a session in which the Space key was given a modifier
\* symbol instead of Super_L.
LayoutSpaceAsShift == [Layout EXCEPT ![65] = "Shift_L"]

\* The layout of a session in which key code 66 carries ISO_Lock.
LayoutWithISOLock == [Layout EXCEPT ![66] = "ISO_Lock"]

LayoutNames == {"remapped", "without space", "space as Shift_L", "with ISO_Lock"}

LayoutNamed(name) ==
    CASE name = "remapped" -> Layout
      [] name = "without space" -> LayoutWithoutSpace
      [] name = "space as Shift_L" -> LayoutSpaceAsShift
      [] name = "with ISO_Lock" -> LayoutWithISOLock

\* The name of the layout of the session the engine runs in.
session_layout ==
    IF environment = <<>> THEN "remapped" ELSE environment[1].layout

XkbKeycodeToKeysym(key_code) == LayoutNamed(session_layout)[key_code]

\* KeyCodeSet::populate_key_syms: the key codes whose no-modifier symbol
\* satisfies the predicate, here a set of symbols.
populate_key_syms(layout, is_contained) ==
    {k \in KeyCodes : layout[k] \in is_contained}

\* XKeysymToKeycode: the first key code that produces the symbol, 0 if none.
XKeysymToKeycodeIn(layout, key_sym) ==
    LET codes == {k \in KeyCodes : layout[k] = key_sym}
    IN  IF codes = {} THEN 0
        ELSE CHOOSE k \in codes : \A j \in codes : k <= j

XKeysymToKeycode(key_sym) == XKeysymToKeycodeIn(Layout, key_sym)

remapped_key_code_same_as_original == XKeysymToKeycode("Super_L")

remapped_key_code_ == XKeysymToKeycode("space")

SuperKeySyms == {"Super_L", "Super_R"}

\* super_keys_ as setup_key_codes fills it, for each layout.
super_keys_in ==
    [name \in LayoutNames |-> populate_key_syms(LayoutNamed(name), SuperKeySyms)]

super_keys_ == super_keys_in[session_layout]

ModifierKeySyms ==
    {"Shift_L", "Shift_R", "Control_L", "Control_R", "Meta_L", "Meta_R",
     "Alt_L", "Alt_R", "Hyper_L", "Hyper_R",
     "ISO_Lock", "ISO_Level3_Shift", "ISO_Level5_Shift", "ISO_Group_Shift",
     "ISO_Next_Group", "ISO_Prev_Group", "ISO_First_Group", "ISO_Last_Group"}

\* modifier_keys_ as setup_key_codes fills it, for each layout.
modifier_keys_in ==
    [name \in LayoutNames |-> populate_key_syms(LayoutNamed(name), ModifierKeySyms)]

modifier_keys_ == modifier_keys_in[session_layout]

\* The key codes whose events are delivered in the model: one Other key, two
\* modifier keys, the Space key, a Super key, and the key code of the
\* synthetic Space, whose injected events are recorded like any other.
EventKeys == {38, 50, 62, original_space_key_code_, 133, remapped_key_code_}

\* ------------------------------------------------------- s2sctl: its data
\* The key codes of the session s2sctl runs in: the Space key and two key
\* codes no key of the keyboard uses.
CtlKeys == {65, 249, 250}

KeysAscending == <<65, 249, 250>>

\* The mapping of the session before s2sctl ever ran (first symbol of a key).
OriginalKeymap == [key_code \in CtlKeys |-> IF key_code = 65 THEN "space" ELSE "NoSymbol"]

DigitChar(d) == <<"0", "1", "2", "3", "4", "5", "6", "7", "8", "9">>[d + 1]

\* A number as the text xmodmap, awk and the shell handle.
RECURSIVE decimal(_)
decimal(n) ==
    IF n < 10 THEN <<DigitChar(n)>>
    ELSE Append(decimal(n \div 10), DigitChar(n % 10))

default_typed_space_timeout == <<"5", "0", "0">>

\* The configuration files tried: none, an empty one, one that sets another
\* option only, one with a timeout_millisec line, and one with two.
ConfigLine(name, number) == [name |-> name, number |-> number]

NoConfig == [exists |-> FALSE, lines |-> <<>>]

ConfigFiles ==
    {NoConfig,
     [exists |-> TRUE, lines |-> <<>>],
     [exists |-> TRUE, lines |-> <<ConfigLine("verbose", 1)>>],
     [exists |-> TRUE, lines |-> <<ConfigLine("timeout_millisec", 300)>>],
     [exists |-> TRUE, lines |-> <<ConfigLine("timeout_millisec", 20),
                                   ConfigLine("timeout_millisec", 7)>>]}

RECURSIVE awk_print_second_fields(_)
awk_print_second_fields(lines) ==
    IF lines = <<>> THEN <<>>
    ELSE IF Len(lines) = 1 THEN decimal(lines[1].number)
    ELSE decimal(lines[1].number) \o <<"\n">> \o awk_print_second_fields(Tail(lines))

is_timeout_line(line) == line.name = "timeout_millisec"

\* typed_space_timeout=$(awk ... "$config" 2> /dev/null || echo "$default"):
\* awk fails when it cannot read the file, and succeeds, printing the second
\* field of every matching line, when it can.
typed_space_timeout(config) ==
    IF ~ config.exists THEN default_typed_space_timeout
    ELSE awk_print_second_fields(SelectSeq(config.lines, is_timeout_line))

\* An xmodmap expression: keycode <key_code> = <sym>, or keycode any = <sym>.
Keycode(key_code, sym) == [any |-> FALSE, key_code |-> key_code, sym |-> sym]

KeycodeAny(sym) == [any |-> TRUE, key_code |-> 0, sym |-> sym]

has_space(expression) == expression.sym = "space"

\* xmodmap -pke: one expression per key code, in ascending order.
print_key_code_mappings(mapping) ==
    [i \in 1..Len(KeysAscending) |-> Keycode(KeysAscending[i], mapping[KeysAscending[i]])]

\* ... | grep -w 'space'
print_space_key_mappings(mapping) ==
    SelectSeq(print_key_code_mappings(mapping), has_space)

SpareKeys(mapping) == {key_code \in CtlKeys : mapping[key_code] = "NoSymbol"}

Highest(keys) == CHOOSE key_code \in keys : \A other \in keys : other <= key_code

\* xmodmap <file>.  `keycode any = sym` leaves the mapping alone when a key
\* has the symbol, takes a spare key code when none has, and fails when
\* there is no spare key code; a failing xmodmap changes nothing.
RECURSIVE xmodmap(_, _)
xmodmap(expressions, mapping) ==
    IF expressions = <<>> THEN [ok |-> TRUE, keymap |-> mapping]
    ELSE LET expression == Head(expressions)
         IN  IF ~ expression.any
             THEN xmodmap(Tail(expressions),
                          [mapping EXCEPT ![expression.key_code] = expression.sym])
             ELSE IF \E key_code \in CtlKeys : mapping[key_code] = expression.sym
             THEN xmodmap(Tail(expressions), mapping)
             ELSE IF SpareKeys(mapping) = {}
             THEN [ok |-> FALSE, keymap |-> mapping]
             ELSE xmodmap(Tail(expressions),
                          [mapping EXCEPT ![Highest(SpareKeys(mapping))] = expression.sym])

\* What the environment decides during one s2sctl command: whether each
\* xmodmap call reaches the X server, and whether the engine has exited
\* half a second after SIGTERM.
Outcomes == [list : BOOLEAN, apply : BOOLEAN, relist : BOOLEAN,
             restore : BOOLEAN, term_in_time : BOOLEAN]

\* ---------------------------------------------------- s2sctl: its functions
\* These work on a record of what a command has reached so far: the
\* mapping, the files, the engine processes, the steps taken that are seen
\* from outside, and the exit status (1 once _die ran).
step(w, what) == [w EXCEPT !.trace = Append(@, what)]

die(w) == [w EXCEPT !.status = 1]

signal(w, signal_id) == step(w, signal_id)

restore_original_key_code_mappings(w, outcome) ==
    IF outcome.restore
    THEN step([w EXCEPT !.keymap = xmodmap(w.files.original_xmodmap, w.keymap).keymap],
              "xmodmap original")
    ELSE die(step(w, "xmodmap original failed"))

\* An always-zero count of pgrep.
is_running_never(w) == FALSE

is_running(w) == Len(w.engines) > 0

to_Super_L(expression) == [expression EXCEPT !.sym = "Super_L"]

to_nothing(expression) == Keycode(expression.key_code, "NoSymbol")

\* The engine process `"$binary" "$original_space_key_code"
\* "$typed_space_timeout" &` creates.
Engine(original_space_key_code, timeout) ==
    [argv1 |-> original_space_key_code, argv2 |-> timeout]

s2sctl_start(w, outcome) ==
    IF is_running(w) THEN w
    ELSE IF ~ outcome.list \/ print_space_key_mappings(w.keymap) = <<>>
    THEN die(step([w EXCEPT !.files.original_xmodmap = <<>>],
                  IF outcome.list THEN "no space key" ELSE "xmodmap -pke failed"))
    ELSE
    LET original == print_space_key_mappings(w.keymap)
        original_space_key_code == decimal(original[1].key_code)
        changes == [i \in 1..Len(original) |-> to_Super_L(original[i])]
                       \o <<KeycodeAny("space")>>
        written == [w EXCEPT !.files.original_xmodmap = original,
                             !.files.xmodmap_changes = changes]
        applied == xmodmap(changes, w.keymap)
    IN  IF ~ (outcome.apply /\ applied.ok)
        THEN die(restore_original_key_code_mappings(
                     step(written, "xmodmap changes failed"), outcome))
        ELSE
        LET changed == step([written EXCEPT !.keymap = applied.keymap], "xmodmap changes")
            remapped == print_space_key_mappings(changed.keymap)
            any_key == IF outcome.relist
                       THEN [i \in 1..Len(remapped) |-> to_nothing(remapped[i])]
                       ELSE <<>>
            listed == IF outcome.relist THEN changed
                      ELSE step(changed, "xmodmap -pke failed")
        IN  step([listed EXCEPT
                      !.files.original_xmodmap = @ \o any_key,
                      !.engines = Append(@, Engine(original_space_key_code,
                                                   typed_space_timeout(w.files.config)))],
                 "launch")

s2sctl_stop(w, outcome) ==
    IF ~ is_running(w) THEN die(w)
    ELSE
    LET restored == restore_original_key_code_mappings(w, outcome)
    IN  IF restored.status = 1 THEN restored
        ELSE IF outcome.term_in_time
        THEN [signal(restored, "TERM") EXCEPT !.engines = <<>>]
        ELSE die([signal(signal(restored, "TERM"), "KILL") EXCEPT !.engines = <<>>])

s2sctl_restart(w, outcome) ==
    LET stopped == IF is_running(w) THEN s2sctl_stop(w, outcome) ELSE w
    IN  IF stopped.status = 1 THEN stopped ELSE s2sctl_start(stopped, outcome)

s2sctl_remap(w, outcome) ==
    IF ~ is_running(w) THEN [w EXCEPT !.status = 1]
    ELSE LET applied == xmodmap(w.files.xmodmap_changes, w.keymap)
         IN  IF outcome.apply /\ applied.ok
             THEN step([w EXCEPT !.keymap = applied.keymap], "xmodmap changes")
             ELSE die(restore_original_key_code_mappings(
                          step(w, "xmodmap changes failed"), outcome))

s2sctl_running(w) == [w EXCEPT !.status = IF is_running(w) THEN 0 ELSE 1]

\* ------------------------------------------------------- derived state
engine == <<space_down_, space_down_moment_, modifier_down_, space_key_combo_>>

vars == <<space_down_, space_down_moment_, modifier_down_, space_key_combo_,
          record_context_, instance, phase, exit_status, environment,
          signal_received, fake, fake_status,
          space_held_milliseconds, last, event_time, pre, pre_moment, mods_down, cycle,
          keymap, files, engines, ctl>>

\* What an s2sctl command works on.
desktop == <<keymap, files, engines, ctl>>

\* What one engine process works on.
engine_process ==
    <<space_down_, space_down_moment_, modifier_down_, space_key_combo_,
      record_context_, instance, phase, exit_status, environment,
      signal_received, fake, fake_status,
      space_held_milliseconds, last, event_time, pre, pre_moment, mods_down, cycle>>

World == [keymap |-> keymap, files |-> files, engines |-> engines,
          trace |-> <<>>, status |-> 0]

Before == [keymap |-> keymap, files |-> files, engines |-> engines]

\* What is recorded of the last command when the last step was not one.
NoCommand == [command |-> "none", status |-> 0, trace |-> <<>>, pre |-> Before,
              xmodmap_failed |-> ctl.xmodmap_failed]

Flags == [space_down_ |-> space_down_,
          space_key_combo_ |-> space_key_combo_,
          modifier_down_ |-> modifier_down_]

\* Since when Space is held: space_down_moment_ means something only while
\* space_down_ is true.
held_since == IF space_down_ THEN space_down_moment_ ELSE NoTime

FakeDown == [key_code |-> remapped_key_code_, is_press |-> TRUE]
FakeUp == [key_code |-> remapped_key_code_, is_press |-> FALSE]
TapPair == <<FakeDown, FakeUp>>

Event(type, key_code) == [category |-> "XRecordFromServer", type |-> type, key_code |-> key_code]

EmptyCycle == [events |-> <<>>, taps |-> 0, pre |-> [space_down_ |-> FALSE,
               space_key_combo_ |-> FALSE, modifier_down_ |-> FALSE]]

Init ==
    /\ space_down_ = FALSE
    /\ space_down_moment_ = NoTime   \* not initialized, and not read before Space is pressed
    /\ modifier_down_ = FALSE
    /\ space_key_combo_ = FALSE
    /\ record_context_ = "none"
    /\ instance = "nullptr"
    /\ phase = "starting"
    /\ exit_status = "none"
    /\ environment = <<>>
    /\ signal_received = "none"
    /\ fake = <<>>
    /\ fake_status = <<>>
    /\ space_held_milliseconds = NotComputed
    /\ last = Event("none", 0)
    /\ event_time = NoTime
    /\ pre = EmptyCycle.pre
    /\ pre_moment = NoTime
    /\ mods_down = {}               \* no modifier key is held when the engine starts
    /\ cycle = EmptyCycle
    /\ keymap = OriginalKeymap
    /\ files = [config |-> NoConfig, original_xmodmap |-> <<>>, xmodmap_changes |-> <<>>]
    /\ engines = <<>>
    /\ ctl = [command |-> "none", status |-> 0, trace |-> <<>>, pre |-> Before,
              xmodmap_failed |-> FALSE]

\* ------------------------------------------------------------ the engine
space_down_alone_ignoring_space ==
    ~ (space_key_combo_ \/ modifier_down_)

space_down_alone_ignoring_modifier ==
    space_down_ /\ ~ space_key_combo_

space_down_alone ==
    space_down_ /\ ~ (space_key_combo_ \/ modifier_down_)

is_space_unless_in_other_role(key_code) ==
    /\ key_code = original_space_key_code_
    /\ key_code \notin super_keys_ \cup modifier_keys_

is_space(key_code) == key_code = original_space_key_code_

is_super(key_code) == key_code \in super_keys_

is_modifier(key_code) == key_code \in modifier_keys_

within_timeout_exclusive(held_milliseconds) == held_milliseconds < timeout_millisec_

\* The test of handle_key_release that decides whether Space is typed.
within_timeout(held_milliseconds) == held_milliseconds <= timeout_millisec_

\* The two XTestFakeKeyEvent calls of one synthetic Space.
fake_space_target_code ==
    <<[key_code |-> original_space_key_code_, is_press |-> TRUE],
      [key_code |-> original_space_key_code_, is_press |-> FALSE]>>

fake_space ==
    <<[key_code |-> remapped_key_code_, is_press |-> TRUE],
      [key_code |-> remapped_key_code_, is_press |-> FALSE]>>

press_other_key_always_combo ==
    /\ space_key_combo_' = TRUE
    /\ UNCHANGED <<space_down_, space_down_moment_, modifier_down_>>

\* The press of a key that is neither Space, Super nor a modifier.
press_other_key ==
    /\ space_key_combo_' = space_down_
    /\ UNCHANGED <<space_down_, space_down_moment_, modifier_down_>>

\* `now` is what gettimeofday returns if the handler calls it.
handle_key_press(key_code, now) ==
    /\ space_held_milliseconds' = NotComputed
    /\ IF is_space(key_code) THEN
           /\ space_down_' = TRUE
           /\ space_down_moment_' = now
           /\ fake' = <<>>
           /\ UNCHANGED <<modifier_down_, space_key_combo_>>
       ELSE IF is_super(key_code) THEN
           /\ fake' = IF space_down_ THEN fake_space ELSE <<>>
           /\ UNCHANGED engine
       ELSE IF is_modifier(key_code) THEN
           /\ modifier_down_' = TRUE
           /\ fake' = <<>>
           /\ UNCHANGED <<space_down_, space_down_moment_, space_key_combo_>>
       ELSE
           /\ press_other_key
           /\ fake' = <<>>

release_space_keeping_combo ==
    /\ space_down_' = FALSE
    /\ UNCHANGED <<space_key_combo_, modifier_down_>>

release_space_clearing_modifier ==
    /\ space_down_' = FALSE
    /\ space_key_combo_' = FALSE
    /\ modifier_down_' = FALSE

\* The assignments that end every release of Space.
release_space ==
    /\ space_down_' = FALSE
    /\ space_key_combo_' = FALSE
    /\ UNCHANGED modifier_down_

release_other_key_clearing_combo ==
    /\ space_key_combo_' = FALSE
    /\ UNCHANGED <<space_down_, space_down_moment_, modifier_down_>>

\* The release of a key that is neither Space, Super nor a modifier: no
\* branch of handle_key_release is taken.
release_other_key == UNCHANGED engine

handle_key_release(key_code, now) ==
    IF is_space(key_code) THEN
        /\ space_held_milliseconds' =
               IF space_down_alone
               THEN <<timespan_milliseconds(space_down_moment_, now)>>
               ELSE NotComputed
        /\ fake' = IF space_down_alone /\ within_timeout(space_held_milliseconds'[1])
                   THEN fake_space ELSE <<>>
        /\ release_space
        /\ UNCHANGED space_down_moment_
    ELSE IF is_super(key_code) THEN
        /\ space_key_combo_' = IF space_down_ THEN TRUE ELSE space_key_combo_
        /\ fake' = <<>>
        /\ space_held_milliseconds' = NotComputed
        /\ UNCHANGED <<space_down_, space_down_moment_, modifier_down_>>
    ELSE IF is_modifier(key_code) THEN
        /\ modifier_down_' = FALSE
        /\ fake' = <<>>
        /\ space_held_milliseconds' = NotComputed
        /\ UNCHANGED <<space_down_, space_down_moment_, space_key_combo_>>
    ELSE
        /\ fake' = <<>>
        /\ space_held_milliseconds' = NotComputed
        /\ release_other_key

handle_button_press_no_combo ==
    /\ space_key_combo_' = space_key_combo_
    /\ fake' = <<>>
    /\ space_held_milliseconds' = NotComputed
    /\ UNCHANGED <<space_down_, space_down_moment_, modifier_down_>>

handle_button_press_always_combo ==
    /\ space_key_combo_' = TRUE
    /\ fake' = <<>>
    /\ space_held_milliseconds' = NotComputed
    /\ UNCHANGED <<space_down_, space_down_moment_, modifier_down_>>

handle_button_press ==
    /\ space_key_combo_' = space_down_
    /\ fake' = <<>>
    /\ space_held_milliseconds' = NotComputed
    /\ UNCHANGED <<space_down_, space_down_moment_, modifier_down_>>

\* -------------------------------------------------------------- startup
\* What main can find when it starts: its argument count, whether each
\* XOpenDisplay succeeds, whether the server has the XTest and XRecord
\* extensions, the keyboard layout (Layout, named "remapped", or
\* LayoutWithoutSpace), and whether XRecordAllocRange,
\* XRecordCreateContext and XRecordEnableContext succeed.
EnvironmentsWith(layouts, arguments) ==
    [argc : {2, 3}, argv1 : arguments,
     control_display : BOOLEAN, data_display : BOOLEAN,
     xtest : BOOLEAN, xrecord : BOOLEAN,
     layout : layouts,
     record_range : BOOLEAN, record_context : BOOLEAN, enable_context : BOOLEAN]

\* The sessions `s2sctl` starts the engine in.
Environments == EnvironmentsWith({"remapped", "without space"}, {Argv1})

check_xtest_extension(env) == env.xtest

check_xrecord_extension(env) == env.xrecord

\* Fails when XK_space maps back to no key code.
setup_key_codes(env) ==
    XKeysymToKeycodeIn(LayoutNamed(env.layout), "space") # 0

initialize_without_extension_checks(env) ==
    /\ env.control_display
    /\ env.data_display
    /\ setup_key_codes(env)

initialize(env) ==
    /\ env.control_display
    /\ env.data_display
    /\ check_xtest_extension(env)
    /\ check_xrecord_extension(env)
    /\ setup_key_codes(env)

\* start_loop reaches the blocking XRecordEnableContext call, and the call
\* does not fail at once.
start_loop(env) ==
    /\ env.record_range
    /\ env.record_context
    /\ env.enable_context

\* The status main returns without having entered the event loop.
main_failure_status == "EXIT_FAILURE"

\* main up to the blocking call.  When start_loop fails the destructor of
\* the Space2Super object runs Space2Super::stop; it frees the record
\* context if one was created.
main(env) ==
    /\ environment' = <<env>>
    /\ IF env.argc = 3 /\ initialize(env) /\ start_loop(env)
       THEN /\ phase' = "blocked"
            /\ record_context_' = "enabled"
            /\ UNCHANGED exit_status
       ELSE /\ phase' = "exited"
            /\ exit_status' = main_failure_status
            /\ record_context_' =
                   IF env.argc = 3 /\ initialize(env) /\ env.record_range
                      /\ env.record_context
                   THEN "freed" ELSE "none"
    /\ UNCHANGED <<desktop, engine, instance, signal_received, fake, fake_status,
                   space_held_milliseconds, last, event_time, pre, pre_moment,
                   mods_down, cycle>>

StartIn(environments) ==
    /\ phase = "starting"
    /\ \E env \in environments : main(env)

Start == StartIn(Environments)

\* ------------------------------------------------- delivery of one event
\* The record of the Space hold the event belongs to: a KeyPress of Space in
\* Idle opens a record, the events handled while Space is held extend it up
\* to MaxHold events as long as the release of Space can still be among
\* them, any other event (an ignored one, or the echo of a synthetic Space,
\* too) drops it.
cycle_after(event) ==
    IF event.type = "KeyPress" /\ is_space(event.key_code) /\ ~ space_down_
    THEN [events |-> <<event>>, taps |-> Len(fake') \div 2, pre |-> Flags]
    ELSE IF /\ space_down_
            /\ event.key_code # remapped_key_code_
            /\ cycle.events # <<>>
            /\ Len(cycle.events) + 1 < MaxHold
                   \/ (/\ Len(cycle.events) < MaxHold
                       /\ event.type = "KeyRelease" /\ is_space(event.key_code))
    THEN [events |-> Append(cycle.events, event),
          taps |-> cycle.taps + Len(fake') \div 2,
          pre |-> cycle.pre]
    ELSE EmptyCycle

\* The modifier keys (the Space key apart, whatever its symbol) physically
\* down after the event.
mods_down_after(event) ==
    IF ~ (event.key_code \in modifier_keys_) \/ is_space(event.key_code) THEN mods_down
    ELSE IF event.type = "KeyPress" THEN mods_down \cup {event.key_code}
    ELSE IF event.type = "KeyRelease" THEN mods_down \ {event.key_code}
    ELSE mods_down

\* What n calls of XTestFakeKeyEvent can return: 0 for a failure.
ReturnValues(n) == [1..n -> {0, 1}]

phase_after_fake_exiting_on_failure(statuses) ==
    IF \E i \in 1..Len(statuses) : statuses[i] = 0 THEN "exited" ELSE "blocked"

\* The handlers discard what XTestFakeKeyEvent returns and go on.
phase_after_fake(statuses) == "blocked"

process_event(event, now) ==
    /\ CASE event.type = "KeyPress" -> handle_key_press(event.key_code, now)
         [] event.type = "KeyRelease" -> handle_key_release(event.key_code, now)
         [] event.type = "ButtonPress" -> handle_button_press
         [] OTHER -> FALSE
    /\ pre' = Flags
    /\ pre_moment' = held_since
    /\ last' = event
    /\ event_time' = now
    /\ mods_down' = mods_down_after(event)
    /\ cycle' = cycle_after(event)
    /\ fake_status' \in ReturnValues(Len(fake'))
    /\ phase' = phase_after_fake(fake_status')
    /\ UNCHANGED <<desktop, record_context_, instance, exit_status, environment, signal_received>>

\* The clock values a handler of this key can read: only the Space branches
\* call gettimeofday.
ClockFor(key_code) == IF is_space(key_code) THEN Times ELSE {NoTime}

\* event_callback for a KeyPress recorded from the server.  A modifier key
\* goes down only when it is up (each key's downs and ups alternate).
KeyPressOf(keys) ==
    /\ phase = "blocked"
    /\ \E key_code \in keys \ mods_down : \E now \in ClockFor(key_code) :
           process_event(Event("KeyPress", key_code), now)

KeyPressEvent == KeyPressOf(EventKeys)

\* event_callback for a KeyRelease.  A release of Space can also arrive when
\* the engine has seen no press of it.
KeyReleaseOf(keys) ==
    /\ phase = "blocked"
    /\ \E key_code \in keys \ ((modifier_keys_ \ {original_space_key_code_}) \ mods_down) :
       \E now \in ClockFor(key_code) :
           process_event(Event("KeyRelease", key_code), now)

KeyReleaseEvent == KeyReleaseOf(EventKeys)

ButtonPressEvent ==
    /\ phase = "blocked"
    /\ process_event(Event("ButtonPress", 0), NoTime)

from_server_any_category(event) == TRUE

\* event_callback returns at once for data that is not XRecordFromServer.
from_server(event) == event.category = "XRecordFromServer"

\* The event types process_event passes to a handler.
HandledTypes == {"KeyPress", "KeyRelease", "ButtonPress"}

\* Data that reaches event_callback and no handler: the one other event type
\* of the recorded range (KeyPress..ButtonRelease), the start-of-data mark,
\* and data of another category whose first bytes read as a KeyPress of Space.
IgnoredEvents ==
    {Event("ButtonRelease", 0),
     [category |-> "XRecordStartOfData", type |-> "none", key_code |-> 0],
     [category |-> "XRecordFromClient", type |-> "KeyPress",
      key_code |-> original_space_key_code_]}

IgnoredEvent ==
    /\ phase = "blocked"
    /\ \E event \in IgnoredEvents :
           IF from_server(event) /\ event.type \in HandledTypes
           THEN process_event(event, NoTime)
           ELSE /\ last' = event
                /\ pre' = Flags
                /\ pre_moment' = held_since
                /\ fake' = <<>>
                /\ fake_status' = <<>>
                /\ space_held_milliseconds' = NotComputed
                /\ event_time' = NoTime
                /\ cycle' = EmptyCycle
                /\ UNCHANGED <<desktop, engine, record_context_, instance, phase, exit_status,
                               environment, signal_received, mods_down>>

\* ------------------------------------------------------------- shutdown
\* Space2Super::stop, run by the destructor.
Space2Super_stop == record_context_' = "freed"

\* instance.reset(): destroys the object the global pointer owns, if any.
instance_reset ==
    /\ IF instance # "nullptr" THEN Space2Super_stop ELSE UNCHANGED record_context_
    /\ instance' = "nullptr"

\* The handler of SIGINT and SIGTERM, running while main is blocked in
\* XRecordEnableContext between two events.
stop(signal_number) ==
    /\ signal_number \in {"SIGINT", "SIGTERM"}
    /\ instance_reset
    /\ signal_received' = signal_number
    /\ phase' = "exited"
    /\ exit_status' = "EXIT_SUCCESS"

\* What is left to observe of the last event once the process has exited.
AfterExit ==
    /\ last' = Event("none", 0)
    /\ event_time' = NoTime
    /\ pre' = Flags
    /\ pre_moment' = held_since
    /\ cycle' = EmptyCycle
    /\ space_held_milliseconds' = NotComputed

SignalWhileBlocked ==
    /\ phase = "blocked"
    /\ \E signal_number \in {"SIGINT", "SIGTERM"} : stop(signal_number)
    /\ fake' = <<>>
    /\ fake_status' = <<>>
    /\ AfterExit
    /\ UNCHANGED <<desktop, engine, mods_down, environment>>

\* The same handler, installed before the engine is constructed, running
\* before main has reached the blocking call.
SignalWhileStarting ==
    /\ phase = "starting"
    /\ \E signal_number \in {"SIGINT", "SIGTERM"} : stop(signal_number)
    /\ UNCHANGED <<desktop, engine, mods_down, environment, fake, fake_status,
                   space_held_milliseconds, last, event_time, pre, pre_moment, cycle>>

\* The same handler, running inside event_callback between the two
\* XTestFakeKeyEvent calls of a synthetic Space: the process exits with the
\* first call made and the handler's later assignments not done.
SignalInCallback ==
    /\ phase = "blocked"
    /\ \/ \E now \in Times :
              /\ space_down_alone
              /\ within_timeout(timespan_milliseconds(space_down_moment_, now))
       \/ space_down_
    /\ \E signal_number \in {"SIGINT", "SIGTERM"} : stop(signal_number)
    /\ fake' = <<FakeDown>>
    /\ fake_status' \in ReturnValues(1)
    /\ AfterExit
    /\ UNCHANGED <<desktop, engine, mods_down, environment>>

Next ==
    \/ Start
    \/ SignalWhileStarting
    \/ KeyPressEvent
    \/ KeyReleaseEvent
    \/ ButtonPressEvent
    \/ IgnoredEvent
    \/ SignalWhileBlocked
    \/ SignalInCallback

Spec == Init /\ [][Next]_vars

\* ------------------------------------------------------ startup alone
\* main started with any first argument in any of the layouts.
Arguments == {Argv1, <<"0">>, <<"a", "b", "c">>, <<"2", "0", "0">>, <<>>}

StartAnywhere == StartIn(EnvironmentsWith(LayoutNames, Arguments))

NextStartup == StartAnywhere \/ SignalWhileStarting

SpecStartup == Init /\ [][NextStartup]_vars

\* ------------------------------------- the Space key in another role
\* Sessions in which everything main asks for succeeds, and the Space key
\* carries either Super_L or a modifier symbol.
RoleEnvironments ==
    {env \in EnvironmentsWith({"remapped", "space as Shift_L"}, {Argv1}) :
        env.argc = 3 /\ initialize(env) /\ start_loop(env)}

\* The Space key, a Super key and a modifier key.
RoleKeys == {original_space_key_code_, 133, 50}

StartRoles == StartIn(RoleEnvironments)

RoleKeyPress == KeyPressOf(RoleKeys)

RoleKeyRelease == KeyReleaseOf(RoleKeys)

NextRoles == StartRoles \/ RoleKeyPress \/ RoleKeyRelease \/ ButtonPressEvent

SpecRoles == Init /\ [][NextRoles]_vars

\* ------------------------------------------------- s2sctl: its commands
FailedSteps == {"xmodmap -pke failed", "xmodmap changes failed", "xmodmap original failed"}

HasFailedStep(trace) == \E i \in 1..Len(trace) : trace[i] \in FailedSteps

\* One run of `s2sctl <command>` from its first line to its exit.
Run(command, result) ==
    /\ keymap' = result.keymap
    /\ files' = result.files
    /\ engines' = result.engines
    /\ ctl' = [command |-> command, status |-> result.status,
               trace |-> result.trace, pre |-> Before,
               xmodmap_failed |-> ctl.xmodmap_failed \/ HasFailedStep(result.trace)]
    /\ UNCHANGED engine_process

CtlStart == \E outcome \in Outcomes : Run("start", s2sctl_start(World, outcome))

CtlStop == \E outcome \in Outcomes : Run("stop", s2sctl_stop(World, outcome))

CtlRestart == \E outcome \in Outcomes : Run("restart", s2sctl_restart(World, outcome))

CtlRemap == \E outcome \in Outcomes : Run("remap", s2sctl_remap(World, outcome))

CtlRunning == Run("running", s2sctl_running(World))

\* An engine process ends by itself: main returned EXIT_FAILURE, or a
\* signal s2sctl did not send reached it.
EngineExits ==
    /\ \E i \in 1..Len(engines) :
           engines' = SubSeq(engines, 1, i - 1) \o SubSeq(engines, i + 1, Len(engines))
    /\ ctl' = NoCommand
    /\ UNCHANGED <<keymap, files, engine_process>>

\* The user writes or removes the configuration file.
ConfigWritten ==
    /\ \E config \in ConfigFiles \ {files.config} :
           files' = [files EXCEPT !.config = config]
    /\ ctl' = NoCommand
    /\ UNCHANGED <<keymap, engines, engine_process>>

NextCtl ==
    \/ CtlStart
    \/ CtlStop
    \/ CtlRestart
    \/ CtlRemap
    \/ CtlRunning
    \/ EngineExits
    \/ ConfigWritten

SpecCtl == Init /\ [][NextCtl]_vars

\* ------------------------------------------- timespan_milliseconds alone
\* The seconds and the microseconds of the timestamps tried: both ends of
\* the tv_usec range, and values next to a whole millisecond.
MaxSec == 2

UsecValues == {0, 1, 999, 1000, 1001, 500000, 999000, 999999}

Timevals == [tv_sec : 0..MaxSec, tv_usec : UsecValues]

\* An engine with Space down alone since any moment, and any moment as the
\* value gettimeofday gives the release handler.
InitTimespan ==
    /\ space_down_ = TRUE
    /\ space_down_moment_ \in Timevals
    /\ modifier_down_ = FALSE
    /\ space_key_combo_ = FALSE
    /\ record_context_ = "enabled"
    /\ instance = "nullptr"
    /\ phase = "blocked"
    /\ exit_status = "none"
    /\ environment = <<>>
    /\ signal_received = "none"
    /\ fake = <<>>
    /\ fake_status = <<>>
    /\ space_held_milliseconds = NotComputed
    /\ last = Event("none", 0)
    /\ event_time \in Timevals
    /\ pre = Flags
    /\ pre_moment = space_down_moment_
    /\ mods_down = {}
    /\ cycle = EmptyCycle
    /\ keymap = OriginalKeymap
    /\ files = [config |-> NoConfig, original_xmodmap |-> <<>>, xmodmap_changes |-> <<>>]
    /\ engines = <<>>
    /\ ctl = [command |-> "none", status |-> 0, trace |-> <<>>, pre |-> Before,
              xmodmap_failed |-> FALSE]

\* The first statements of the Space branch of handle_key_release:
\* space_held_milliseconds = timespan_milliseconds(space_down_moment_,
\* space_release_moment).
ComputeSpaceHeld ==
    /\ space_down_alone
    /\ space_held_milliseconds = NotComputed
    /\ space_held_milliseconds' = <<timespan_milliseconds(space_down_moment_, event_time)>>
    /\ UNCHANGED <<engine, record_context_, instance, phase, exit_status, environment,
                   signal_received, fake, fake_status, last, event_time, pre,
                   pre_moment, mods_down, cycle, desktop>>

NextTimespan == ComputeSpaceHeld

SpecTimespan == InitTimespan /\ [][NextTimespan]_vars

\* ------------------------------------------------------------- properties
SpacePress == Event("KeyPress", original_space_key_code_)
SpaceRelease == Event("KeyRelease", original_space_key_code_)
Button == Event("ButtonPress", 0)

OtherKeys == EventKeys \ (({original_space_key_code_} \cup super_keys_) \cup modifier_keys_)
ModifierKeys == EventKeys \cap (modifier_keys_ \ ({original_space_key_code_} \cup super_keys_))

Idle == ~ space_down_
Armed == space_down_ /\ ~ space_key_combo_
Combo == space_down_ /\ space_key_combo_

\* The hold of a Space press and release with no other press of Space
\* between them, in microseconds of the wall clock, once the release is the
\* last event.
HoldMicros == Micros(event_time) - Micros(space_down_moment_)
TimeoutMicros == timeout_millisec_ * 1000

\* The last event was the release of Space that ends the recorded hold.
CycleDone == last = SpaceRelease /\ cycle.events # <<>>

\* C1: in an Idle state with no modifier key down, a press of Space and its
\* release 0 <= d <= timeout later (d = timeout included), with no event
\* between them, inject exactly one synthetic Space, at the release and not
\* before, and leave the engine Idle.
C1_TapWithinTimeout ==
    (/\ cycle.events = <<SpacePress, SpaceRelease>>
     /\ mods_down = {}
     /\ 0 <= HoldMicros
     /\ HoldMicros <= TimeoutMicros)
    => /\ fake = TapPair
       /\ cycle.taps = 1
       /\ Idle /\ ~ space_key_combo_

C1_Witness ==
    /\ cycle.events = <<SpacePress, SpaceRelease>>
    /\ mods_down = {}
    /\ HoldMicros = TimeoutMicros
    /\ fake = TapPair
    /\ Idle

\* C2: a press of Space and its release d later, d a whole number of
\* milliseconds greater than the timeout (so at least timeout + 1 ms), with
\* no event between them, inject no synthetic Space and leave the engine Idle.
C2_NoTapAfterTimeout ==
    (/\ cycle.events = <<SpacePress, SpaceRelease>>
     /\ HoldMicros >= TimeoutMicros + 1000)
    => /\ fake = <<>>
       /\ cycle.taps = 0
       /\ Idle /\ ~ space_key_combo_

C2_Witness ==
    /\ cycle.events = <<SpacePress, SpaceRelease>>
    /\ HoldMicros >= TimeoutMicros + 1000
    /\ mods_down = {}
    /\ ~ pre.modifier_down_ /\ ~ pre.space_key_combo_
    /\ fake = <<>>

\* C3: Space down, an Other key down, that key up, Space up injects no
\* synthetic Space whatever the timing; and once Space is held in combination
\* no event but the release of Space ends the combination.
C3_InterruptionSticky ==
    /\ \A k \in OtherKeys :
           cycle.events = <<SpacePress, Event("KeyPress", k), Event("KeyRelease", k), SpaceRelease>>
           => cycle.taps = 0 /\ fake = <<>>
    /\ (phase = "blocked" /\ pre.space_down_ /\ pre.space_key_combo_ /\ last # SpaceRelease)
       => Combo

C3_Witness ==
    /\ \E k \in OtherKeys :
           cycle.events = <<SpacePress, Event("KeyPress", k), Event("KeyRelease", k), SpaceRelease>>
    /\ HoldMicros <= TimeoutMicros /\ 0 <= HoldMicros
    /\ mods_down = {} /\ ~ pre.modifier_down_
    /\ pre.space_key_combo_
    /\ fake = <<>>

\* C4: a button press while Space is held and not yet in combination puts it
\* in combination, and the release of Space that follows the button press
\* injects nothing; a button press in Idle leaves the combination flag false.
C4_ButtonPressInterrupts ==
    /\ (last = Button /\ pre.space_down_ /\ ~ pre.space_key_combo_) => Combo
    /\ (last = Button /\ ~ pre.space_down_) => (Idle /\ ~ space_key_combo_)
    /\ (/\ CycleDone
        /\ Len(cycle.events) >= 3
        /\ cycle.events[Len(cycle.events) - 1] = Button)
       => fake = <<>>

C4_Witness ==
    /\ cycle.events = <<SpacePress, Button, SpaceRelease>>
    /\ 0 <= HoldMicros /\ HoldMicros <= TimeoutMicros
    /\ mods_down = {} /\ ~ pre.modifier_down_
    /\ cycle.taps = 0

\* C5: Space down, a modifier key down, Space up (the modifier still down)
\* injects no synthetic Space, however short the hold.
C5_ModifierHeldNoTap ==
    \A k \in ModifierKeys :
        cycle.events = <<SpacePress, Event("KeyPress", k), SpaceRelease>>
        => cycle.taps = 0 /\ fake = <<>>

C5_Witness ==
    /\ \E k \in ModifierKeys :
           /\ cycle.events = <<SpacePress, Event("KeyPress", k), SpaceRelease>>
           /\ mods_down = {k}
    /\ 0 <= HoldMicros /\ HoldMicros <= TimeoutMicros
    /\ ~ pre.space_key_combo_
    /\ fake = <<>>

\* C6: Space down, a modifier key down, that modifier up, Space up, all
\* within the timeout, injects no synthetic Space.
C6_ModifierReleaseDoesNotRearm ==
    \A k \in ModifierKeys :
        (/\ cycle.events = <<SpacePress, Event("KeyPress", k), Event("KeyRelease", k), SpaceRelease>>
         /\ 0 <= HoldMicros /\ HoldMicros <= TimeoutMicros)
        => cycle.taps = 0

\* C7: a release of Space while Space is not held injects nothing, computes
\* no duration and changes none of the three flags.
C7_SpuriousReleaseNoOp ==
    (phase = "blocked" /\ last = SpaceRelease /\ ~ pre.space_down_)
    => /\ fake = <<>>
       /\ space_held_milliseconds = NotComputed
       /\ Flags = pre

C7_Witness ==
    /\ phase = "blocked" /\ last = SpaceRelease /\ ~ pre.space_down_
    /\ ~ pre.modifier_down_
    /\ space_down_moment_ # NoTime
    /\ Micros(event_time) - Micros(space_down_moment_) <= TimeoutMicros

\* C8 as stated: after a hold of Space that was never in combination, the
\* three flags are what they were before the press.
C8_CycleRestoresFlags ==
    (CycleDone /\ ~ pre.space_key_combo_) => Flags = cycle.pre

IsModifierEvent(event) == event.key_code \in modifier_keys_ /\ ~ is_space(event.key_code)

\* C8 amended: after such a hold Space is neither down nor in combination, as
\* before the press, and the modifier flag is what it was before the press
\* unless a modifier key was pressed or released during the hold.
C8_CycleRestoresSpaceFlags ==
    (CycleDone /\ ~ pre.space_key_combo_)
    => /\ ~ space_down_ /\ ~ space_key_combo_
       /\ ~ cycle.pre.space_down_ /\ ~ cycle.pre.space_key_combo_
       /\ (\A i \in 1..Len(cycle.events) : ~ IsModifierEvent(cycle.events[i]))
          => modifier_down_ = cycle.pre.modifier_down_

C8_Witness ==
    /\ CycleDone /\ ~ pre.space_key_combo_
    /\ Len(cycle.events) = 2
    /\ cycle.pre.modifier_down_
    /\ modifier_down_
    /\ Idle

\* C9: the XTestFakeKeyEvent calls made for an event that has been processed
\* are none, or a press at once followed by a release, both of the remapped
\* Space key code and never of the original one.
C9_InjectionIsDownUpPair ==
    phase = "blocked"
    => /\ fake \in {<<>>, TapPair}
       /\ \A i \in 1..Len(fake) : fake[i].key_code # original_space_key_code_

C9_Witness == phase = "blocked" /\ fake = TapPair /\ last = SpaceRelease

\* C10: when SIGINT or SIGTERM has made the process exit, the record context
\* has been disabled and freed (Space2Super::stop has run).
C10_StopRunsBeforeExit ==
    (phase = "exited" /\ signal_received # "none" /\ environment # <<>>)
    => record_context_ = "freed"

NoEvent == Event("none", 0)
SuperKeys == (EventKeys \cap super_keys_) \ {original_space_key_code_}
IsPressOf(event, keys) == event.type = "KeyPress" /\ event.key_code \in keys

\* An initialization failure of the kinds the claim lists.
InitializationFails(env) ==
    \/ ~ env.control_display
    \/ ~ env.data_display
    \/ ~ env.xtest
    \/ ~ env.xrecord
    \/ env.layout = "without space"
    \/ ~ env.record_range
    \/ ~ env.record_context

\* C11: the process exits with EXIT_SUCCESS when SIGINT or SIGTERM shuts it
\* down, and with EXIT_FAILURE when a display cannot be opened, XTest or
\* XRecord is absent, no key code maps to space, or the record range or
\* context cannot be created; in that case no event has been processed and
\* nothing injected.
C11_ExitStatus ==
    /\ signal_received # "none"
       => (phase = "exited" /\ exit_status = "EXIT_SUCCESS")
    /\ (environment # <<>> /\ InitializationFails(environment[1]))
       => /\ phase = "exited"
          /\ exit_status = "EXIT_FAILURE"
          /\ last = NoEvent
          /\ fake = <<>>
          /\ ~ space_down_ /\ ~ space_key_combo_ /\ ~ modifier_down_

C11_Witness ==
    /\ environment # <<>>
    /\ environment[1].argc = 3
    /\ ~ environment[1].xrecord
    /\ environment[1].control_display /\ environment[1].data_display
    /\ environment[1].xtest /\ environment[1].layout = "remapped"
    /\ phase = "exited"
    /\ exit_status = "EXIT_FAILURE"

FakeFailed == \E i \in 1..Len(fake_status) : fake_status[i] = 0

\* C12: when an XTestFakeKeyEvent call of an event reports failure, the
\* engine goes on: the process keeps running, the two calls were made once
\* each, and the flags are what the event leaves when the calls succeed
\* (Idle after the release of Space).
C12_InjectionFailureIgnored ==
    (FakeFailed /\ signal_received = "none")
    => /\ phase = "blocked"
       /\ exit_status = "none"
       /\ fake = TapPair
       /\ Len(fake_status) = 2
       /\ last = SpaceRelease
          => (Idle /\ ~ space_key_combo_ /\ modifier_down_ = pre.modifier_down_)
       /\ last # SpaceRelease => Flags = pre

C12_Witness ==
    /\ FakeFailed
    /\ fake_status[1] = 0
    /\ last = SpaceRelease
    /\ phase = "blocked"
    /\ Idle

\* C13: a press of Super while Space is held and not in combination injects
\* a synthetic Space at once and puts Space in combination, so that Space
\* down, Super down, Space up injects one synthetic Space in all.
C13_SuperPressMovesToCombo ==
    /\ (phase = "blocked" /\ IsPressOf(last, SuperKeys)
        /\ pre.space_down_ /\ ~ pre.space_key_combo_)
       => (fake = TapPair /\ Combo)
    /\ \A k \in SuperKeys :
           cycle.events = <<SpacePress, Event("KeyPress", k), SpaceRelease>>
           => (cycle.taps = 1 /\ fake = <<>>)

\* C14 as stated: the release of Space while it is held clears the Space
\* flag, the combination flag and the modifier flag.
C14_ReleaseClearsAllFlags ==
    (phase = "blocked" /\ last = SpaceRelease /\ pre.space_down_)
    => (~ space_down_ /\ ~ space_key_combo_ /\ ~ modifier_down_)

\* C14 amended: the release of Space while it is held clears the Space flag
\* and the combination flag, whether or not a synthetic Space was injected,
\* and leaves the modifier flag as it was.
C14_ReleaseClearsSpaceFlags ==
    (phase = "blocked" /\ last = SpaceRelease /\ pre.space_down_)
    => /\ ~ space_down_
       /\ ~ space_key_combo_
       /\ modifier_down_ = pre.modifier_down_

C14_Witness ==
    /\ phase = "blocked" /\ last = SpaceRelease
    /\ pre.space_down_ /\ pre.space_key_combo_ /\ pre.modifier_down_
    /\ modifier_down_
    /\ Idle /\ ~ space_key_combo_

\* C15: a release of Space, held alone, for which the computed hold is
\* negative injects no synthetic Space.
C15_NegativeHoldNoTap ==
    (/\ phase = "blocked"
     /\ last = SpaceRelease
     /\ space_held_milliseconds # NotComputed
     /\ space_held_milliseconds[1] < 0)
    => fake = <<>>

\* C16: while the engine runs, the modifier flag is true exactly when some
\* modifier key is down.
C16_ModifierFlagTracksKeys ==
    phase = "blocked" => (modifier_down_ <=> mods_down # {})

\* C17 as stated: in Idle the press of any key but Space injects nothing and
\* changes none of the three flags.
C17_IdlePressNoOp ==
    (/\ phase = "blocked"
     /\ last.type = "KeyPress" /\ ~ is_space(last.key_code)
     /\ ~ pre.space_down_)
    => (fake = <<>> /\ Flags = pre)

\* C17 amended: in Idle the press of any key but Space injects nothing; the
\* press of an Other or Super key changes none of the three flags, the press
\* of a modifier key sets the modifier flag and changes nothing else.
C17_IdlePressOnlySetsModifier ==
    (/\ phase = "blocked"
     /\ last.type = "KeyPress" /\ ~ is_space(last.key_code)
     /\ ~ pre.space_down_)
    => /\ fake = <<>>
       /\ Flags = IF last.key_code \in ModifierKeys
                  THEN [pre EXCEPT !.modifier_down_ = TRUE]
                  ELSE pre

C17_Witness ==
    /\ phase = "blocked"
    /\ IsPressOf(last, OtherKeys)
    /\ ~ pre.space_down_ /\ pre.modifier_down_
    /\ Flags = pre
    /\ space_down_moment_ # NoTime

\* C18: a press of Super while Space is held in combination injects nothing
\* and changes no flag.
C18_SuperPressInComboNoOp ==
    (/\ phase = "blocked"
     /\ IsPressOf(last, SuperKeys)
     /\ pre.space_down_ /\ pre.space_key_combo_)
    => (fake = <<>> /\ Flags = pre)

\* C19: a press of Space while Space is already held changes neither the
\* flags nor the moment of the press.
C19_RepeatedPressNoOp ==
    (phase = "blocked" /\ last = SpacePress /\ pre.space_down_)
    => (Flags = pre /\ space_down_moment_ = pre_moment)

\* C20: the combination flag is never set while Space is not down.
C20_ComboImpliesDown == space_key_combo_ => space_down_

C20_Witness ==
    /\ phase = "blocked" /\ last = SpaceRelease
    /\ pre.space_down_ /\ pre.space_key_combo_
    /\ ~ space_key_combo_ /\ ~ space_down_

\* C21: data whose category is not XRecordFromServer, and an event of a type
\* other than KeyPress, KeyRelease and ButtonPress, inject nothing and leave
\* the three flags and the moment of the press as they were.
C21_IgnoredEventNoOp ==
    (/\ phase = "blocked"
     /\ last.category # "XRecordFromServer" \/ last.type \notin HandledTypes
     /\ last # NoEvent)
    => /\ fake = <<>>
       /\ Flags = pre
       /\ space_down_ => space_down_moment_ = pre_moment

C21_Witness ==
    /\ phase = "blocked"
    /\ last.category = "XRecordFromClient" /\ last.type = "KeyPress"
    /\ Armed /\ Flags = pre
    /\ fake = <<>>

\* C24: a hold of Space, from the press that leaves Idle to the release,
\* injects at most one synthetic Space whatever happens during the hold.
C24_AtMostOneTapPerHold == CycleDone => cycle.taps <= 1

\* C25: with a modifier key down since before the press, a press of Space
\* and its release within the timeout, with no event between them, inject no
\* synthetic Space.
C25_ModifierDownBeforeNoTap ==
    (/\ cycle.events = <<SpacePress, SpaceRelease>>
     /\ mods_down # {}
     /\ 0 <= HoldMicros /\ HoldMicros <= TimeoutMicros)
    => (cycle.taps = 0 /\ fake = <<>>)

\* C27: the recorded KeyPress and KeyRelease of the synthetic Space's key
\* code inject nothing, so an event injects at most one synthetic Space and
\* its echo none.
C27_EchoInjectsNothing ==
    /\ (/\ phase = "blocked"
        /\ last.category = "XRecordFromServer"
        /\ last.type \in {"KeyPress", "KeyRelease"}
        /\ last.key_code = remapped_key_code_)
       => fake = <<>>
    /\ phase = "blocked" => fake \in {<<>>, TapPair}

C27_Witness ==
    /\ phase = "blocked"
    /\ last = Event("KeyPress", remapped_key_code_)
    /\ remapped_key_code_ \notin ({original_space_key_code_} \cup super_keys_) \cup modifier_keys_
    /\ pre.space_down_ /\ ~ pre.space_key_combo_ /\ ~ pre.modifier_down_
    /\ Combo
    /\ fake = <<>>

\* The symbols that lock or latch: pressing a key that carries one changes
\* the keyboard state beyond the time the key is held.
LockOrLatchSyms ==
    {"Caps_Lock", "Shift_Lock", "Num_Lock", "Scroll_Lock", "ISO_Lock",
     "ISO_Level2_Latch", "ISO_Level3_Latch", "ISO_Level3_Lock",
     "ISO_Level5_Latch", "ISO_Level5_Lock", "ISO_Group_Latch", "ISO_Group_Lock",
     "ISO_Next_Group_Lock", "ISO_Prev_Group_Lock", "ISO_First_Group_Lock",
     "ISO_Last_Group_Lock"}

\* C22: while the engine runs, no key code in modifier_keys_ carries a lock
\* or latch symbol.
C22_NoLockIsModifier ==
    phase = "blocked"
    => \A k \in modifier_keys_ : XkbKeycodeToKeysym(k) \notin LockOrLatchSyms

\* The Space key code main takes from its first argument carries a symbol
\* in the layout.
TargetResolves(env) ==
    LET key_code == KeyCodeOf(atoi(env.argv1))
    IN  key_code # 0 /\ LayoutNamed(env.layout)[key_code] # "NoSymbol"

\* C23: main started with a first argument that is no key code of the
\* layout does not enter the event loop and exits with EXIT_FAILURE.
C23_UnresolvedTargetFails ==
    (environment # <<>> /\ signal_received = "none"
     /\ ~ TargetResolves(environment[1]))
    => (phase = "exited" /\ exit_status = "EXIT_FAILURE")

is_in_other_role(key_code) == is_super(key_code) \/ is_modifier(key_code)

\* C26: when the Space key code is also in super_keys_ or in modifier_keys_,
\* its press is handled as a press of Space (Space is down since that
\* moment, nothing is injected, the modifier and combination flags keep
\* their values) and its release as a release of Space.
C26_TargetFirst ==
    /\ (/\ phase = "blocked"
        /\ last = SpacePress
        /\ is_in_other_role(original_space_key_code_))
       => /\ fake = <<>>
          /\ space_down_ /\ space_down_moment_ = event_time
          /\ modifier_down_ = pre.modifier_down_
          /\ space_key_combo_ = pre.space_key_combo_
    /\ (/\ phase = "blocked"
        /\ last = SpaceRelease
        /\ is_in_other_role(original_space_key_code_))
       => /\ ~ space_down_ /\ ~ space_key_combo_
          /\ modifier_down_ = pre.modifier_down_

C26_Witness ==
    /\ phase = "blocked"
    /\ last = SpacePress
    /\ is_modifier(original_space_key_code_)
    /\ pre.space_down_ /\ ~ pre.space_key_combo_ /\ ~ pre.modifier_down_
    /\ Armed /\ ~ modifier_down_
    /\ fake = <<>>

\* ------------------------------------------------------ s2sctl properties
Range(seq) == {seq[i] : i \in 1..Len(seq)}

StartedWhileRunning ==
    /\ ctl.command = "start"
    /\ Len(ctl.pre.engines) > 0

\* C28: `s2sctl start` with an engine already running changes no key
\* mapping, launches no second engine and exits with status 0; and after
\* any sequence of commands at most one engine is running.
C28_StartIsIdempotent ==
    /\ StartedWhileRunning =>
           /\ ctl.status = 0
           /\ ctl.trace = <<>>
           /\ keymap = ctl.pre.keymap
           /\ files = ctl.pre.files
           /\ engines = ctl.pre.engines
    /\ Len(engines) <= 1

C28_Witness ==
    /\ StartedWhileRunning
    /\ ctl.status = 0
    /\ Len(engines) = 1
    /\ keymap # OriginalKeymap

StoppedWhileRunning ==
    /\ ctl.command = "stop"
    /\ Len(ctl.pre.engines) > 0

StopTraces ==
    {<<"xmodmap original failed">>,
     <<"xmodmap original", "TERM">>,
     <<"xmodmap original", "TERM", "KILL">>}

\* C29: `s2sctl stop` with no engine running fails without touching the key
\* mappings; with one running it restores the original mappings, then sends
\* SIGTERM, then SIGKILL only with a failure status; and when no xmodmap
\* call of any command has failed, after it no engine runs and the mapping
\* is the one the session had before s2sctl changed it.
C29_StopRestoresAndTerminates ==
    /\ (ctl.command = "stop" /\ ctl.pre.engines = <<>>) =>
           /\ ctl.status = 1
           /\ ctl.trace = <<>>
           /\ keymap = ctl.pre.keymap
    /\ StoppedWhileRunning =>
           /\ ctl.trace \in StopTraces
           /\ "KILL" \in Range(ctl.trace) => ctl.status = 1
    /\ (StoppedWhileRunning /\ ~ ctl.xmodmap_failed) =>
           /\ "TERM" \in Range(ctl.trace)
           /\ engines = <<>>
           /\ keymap = OriginalKeymap

Launched ==
    /\ ctl.command \in {"start", "restart"}
    /\ ctl.trace # <<>>
    /\ ctl.trace[Len(ctl.trace)] = "launch"
    /\ Len(engines) > 0

TimeoutLines(config) == SelectSeq(config.lines, is_timeout_line)

ConfiguredTimeout(config) ==
    IF config.exists /\ TimeoutLines(config) # <<>>
    THEN TimeoutLines(config)[1].number
    ELSE atoi(default_typed_space_timeout)

\* C30: the engine is started with the number of the timeout_millisec line
\* of the config file, and with 500 when the file is absent or has no such
\* line.
C30_TimeoutFromConfigOrDefault ==
    Launched =>
        atoi(engines[Len(engines)].argv2) = ConfiguredTimeout(ctl.pre.files.config)

\* ------------------------------------------- timespan_milliseconds alone
ElapsedMicros == Micros(event_time) - Micros(space_down_moment_)

\* C31: for timestamps with end >= start, timespan_milliseconds(start, end)
\* is the elapsed time in whole milliseconds rounded down, also when
\* end.tv_usec < start.tv_usec.
C31_TimespanIsFloor ==
    (space_held_milliseconds # NotComputed /\ ElapsedMicros >= 0) =>
        space_held_milliseconds[1] = ElapsedMicros \div 1000

====
